---- MODULE Spec2Model ----
(***************************************************************************)
(* State-machine model of the NexusCircle pool engine (contracts/          *)
(* NexusCircle.sol, kept in src/unnamed/part_000).  Every external         *)
(* function of the contract is one action; a call is a transaction, so it  *)
(* either commits all its writes or reverts and leaves the state as it     *)
(* was.  The only point at which foreign code runs inside a transaction is *)
(* an outgoing transfer; for executePayout that point is a separate        *)
(* control state (inFlight) in which the recipient may call back.          *)
(***************************************************************************)
EXTENDS Integers, Sequences, FiniteSets, TLC

(***************************************************************************)
(* Program constants                                                       *)
(***************************************************************************)
MAX_MEMBERS == 6

COLLATERAL_PERCENT == 10

CONTRIBUTION_DEADLINE == 3600

(***************************************************************************)
(* Bounds of the model                                                     *)
(***************************************************************************)
\* addresses that take part: six members and one outsider
NumAddr == 7

\* pools that can be created
MaxPools == 2

\* pools created where one pool is followed through its whole life (Spec)
DeepPools == 1

\* members the pools after the first take where pools run side by side (SpecPools)
SideMembers == 2

\* deadline windows the clock may run through
MaxDeadlines == 1

\* successful liquidations per pool
MaxLiquidations == 1

\* members of a pool that checkForDefaults ever marks
MaxDefaulters == 1

\* width of an unsigned integer of the contract, scaled down from 256 bits
WordBits == 16

\* type(uint256).max at that width
MaxUint == 2^WordBits - 1

Addr == 1..NumAddr

NoAddr == 0

PoolIds == 0..(MaxPools - 1)

\* pool identifiers a caller passes; one that is not created yet does not exist
PoolArgs == PoolIds

\* pool identifiers a caller passes where one pool is followed (Spec)
DeepArgs == {p \in PoolIds : p < DeepPools}

MaxTime == MaxDeadlines * (CONTRIBUTION_DEADLINE + 1)

\* contribution amounts passed to createPool
Amounts == {0, 100}

\* msg.value sent with createPool and joinPool: the collateral of 100, and more
DepositValues == {10, 11}

\* contribution amounts passed to createPool where createPool is examined
\* (SpecCreate): none, below 10, at and above 10, and around the largest amount
\* whose tenfold fits an unsigned integer
CreateAmounts ==
    {0, 5, 9, 10, 19, 100, MaxUint \div 10, MaxUint \div 10 + 1, MaxUint}

\* msg.value sent with createPool and joinPool there: a tenth of each of these
\* amounts, one less and one more
CreateDeposits ==
    {v \in 0..MaxUint :
        \E a \in CreateAmounts : \E d \in {-1, 0, 1} : v = (a * 10) \div 100 + d}

\* contribution amounts whose collateral of 11 and 19 does not divide by the 5
\* members a liquidation leaves (SpecDust), and the msg.value sent there
DustAmounts == {110, 190}

DustValues == {11, 19}

\* msg.value sent with contribute: the contribution, less and more
PaidValues == {10, 100, 101}

VARIABLES
    poolCount,          \* uint256 poolCount
    pools,              \* mapping(uint256 => Pool)
    isMember,           \* poolId => set of addresses mapped to true
    hasContributed,     \* poolId => set of <<round, address>> mapped to true
    hasPaid,            \* poolId => set of addresses mapped to true
    collateralBalances, \* poolId => address => amount
    hasDefaulted,       \* poolId => set of addresses mapped to true
    balance,            \* address(this).balance
    now,                \* block.timestamp
    inFlight,           \* the executePayout whose transfer is running, or Idle
    everMember,         \* history: poolId => addresses that ever joined
    deposited,          \* history: poolId => collateral taken in
    contributedIn,      \* history: poolId => contributions taken in
    returned,           \* history: poolId => collateral zeroed by returnCollateral
    forfeited,          \* history: poolId => collateral zeroed by liquidation
    distributed,        \* history: poolId => forfeiture shares sent out
    liquidations,       \* history: poolId => successful liquidations
    received,           \* history: poolId => address => forfeiture shares received
    refunded,           \* history: poolId => address => collateral sent back
    payoutLog,          \* history: poolId => sequence of payouts transferred
    fullSince,          \* history: poolId => block.timestamp of the join that last filled it
    replica             \* the pools as an observer applying the emitted events has them

vars == <<poolCount, pools, isMember, hasContributed, hasPaid, collateralBalances,
          hasDefaulted, balance, now, inFlight, everMember, deposited,
          contributedIn, returned, forfeited, distributed, liquidations, received,
          refunded, payoutLog, fullSince, replica>>

engine == <<poolCount, pools, isMember, hasContributed, hasPaid, collateralBalances,
            hasDefaulted, balance>>

history == <<everMember, deposited, contributedIn, returned, forfeited, distributed,
             liquidations, received, refunded, payoutLog, fullSince>>

(***************************************************************************)
(* Helpers                                                                 *)
(***************************************************************************)
Range(s) == {s[i] : i \in DOMAIN s}

RECURSIVE SumOver(_, _)
SumOver(f, S) ==
    IF S = {} THEN 0
    ELSE LET x == CHOOSE y \in S : TRUE IN f[x] + SumOver(f, S \ {x})

Idle == [pool |-> -1, recipient |-> NoAddr, amount |-> 0, nested |-> "none"]

\* storage of a pool that was never created: all fields zero
EmptyPool ==
    [poolId |-> 0, maxMembers |-> 0, contributionAmount |-> 0,
     collateralPercent |-> 0, members |-> <<>>, currentRound |-> 0,
     isActive |-> FALSE, createdAt |-> 0, creator |-> NoAddr,
     roundStartTime |-> 0]

\* Addresses are interchangeable: callers are the addresses that have joined
\* some pool, and one address that never has.
Known == UNION {everMember[p] : p \in PoolIds}

Callers ==
    Known \cup (IF Addr \ Known = {} THEN {}
                ELSE {CHOOSE a \in Addr \ Known : \A b \in Addr \ Known : a <= b})

(***************************************************************************)
(* Modifiers and pure functions of the contract                            *)
(***************************************************************************)
poolExists(p) == p < poolCount

poolActive(p) == pools[p].isActive

onlyMember(p, a) == a \in isMember[p]

RequiredCollateral(amount) == (amount * COLLATERAL_PERCENT) \div 100

\* the loop of lines 682-687 stopping one member short
AllContributedButLast(p) ==
    \A i \in 1..(Len(pools[p].members) - 1) :
        <<pools[p].currentRound, pools[p].members[i]>> \in hasContributed[p]

\* receipts read without regard to the round they were written for
AllContributedAnyRound(p) ==
    \A i \in DOMAIN pools[p].members :
        \E r \in 0..MAX_MEMBERS : <<r, pools[p].members[i]>> \in hasContributed[p]

AllContributed(p) ==
    \A i \in DOMAIN pools[p].members :
        <<pools[p].currentRound, pools[p].members[i]>> \in hasContributed[p]

\* selection of the first member not yet paid, the round-robin index only when
\* all are paid
selectPayoutRecipientUnpaid(p) ==
    IF \E i \in DOMAIN pools[p].members : pools[p].members[i] \notin hasPaid[p]
    THEN pools[p].members[CHOOSE i \in DOMAIN pools[p].members :
             /\ pools[p].members[i] \notin hasPaid[p]
             /\ \A j \in 1..(i - 1) : pools[p].members[j] \in hasPaid[p]]
    ELSE pools[p].members[(pools[p].currentRound % Len(pools[p].members)) + 1]

\* the first member chosen in every round
selectPayoutRecipientFirst(p) == pools[p].members[1]

selectPayoutRecipient(p) ==
    pools[p].members[(pools[p].currentRound % Len(pools[p].members)) + 1]

(***************************************************************************)
(* Events (lines 143-257), each with the arguments its emit statement      *)
(* passes, and the pools as an observer keeps them who applies nothing     *)
(* but those arguments.                                                    *)
(***************************************************************************)
PoolCreated(poolId, creator, contributionAmount, timestamp) ==
    [type |-> "PoolCreated", poolId |-> poolId, creator |-> creator,
     contributionAmount |-> contributionAmount, timestamp |-> timestamp]

MemberJoined(poolId, member, memberCount, timestamp) ==
    [type |-> "MemberJoined", poolId |-> poolId, member |-> member,
     memberCount |-> memberCount, timestamp |-> timestamp]

CollateralDeposited(poolId, member, amount) ==
    [type |-> "CollateralDeposited", poolId |-> poolId, member |-> member,
     amount |-> amount]

ContributionMade(poolId, member, amount, round) ==
    [type |-> "ContributionMade", poolId |-> poolId, member |-> member,
     amount |-> amount, round |-> round]

PayoutExecuted(poolId, recipient, amount, round) ==
    [type |-> "PayoutExecuted", poolId |-> poolId, recipient |-> recipient,
     amount |-> amount, round |-> round]

PoolCompleted(poolId, totalRounds) ==
    [type |-> "PoolCompleted", poolId |-> poolId, totalRounds |-> totalRounds]

CollateralReturned(poolId, member, amount) ==
    [type |-> "CollateralReturned", poolId |-> poolId, member |-> member,
     amount |-> amount]

MemberDefaulted(poolId, member, round) ==
    [type |-> "MemberDefaulted", poolId |-> poolId, member |-> member,
     round |-> round]

CollateralLiquidated(poolId, defaultedMember, collateralAmount, distributionPerMember) ==
    [type |-> "CollateralLiquidated", poolId |-> poolId,
     defaultedMember |-> defaultedMember, collateralAmount |-> collateralAmount,
     distributionPerMember |-> distributionPerMember]

\* a pool of which no event has been seen
EmptyReplica ==
    [members |-> <<>>, collateral |-> [a \in Addr |-> 0], receipts |-> {},
     paid |-> {}, defaulted |-> {}, currentRound |-> 0, isActive |-> FALSE,
     roundStartTime |-> 0]

\* One event applied.  PayoutExecuted tells the round paid, so the round that
\* follows; it has no argument telling when, so roundStartTime stays what
\* PoolCreated said.
Apply(r, e) ==
    LET p == e.poolId IN
    CASE e.type = "PoolCreated" ->
           [r EXCEPT ![p].members = <<e.creator>>, ![p].currentRound = 0,
                     ![p].isActive = TRUE, ![p].roundStartTime = e.timestamp]
      [] e.type = "MemberJoined" ->
           [r EXCEPT ![p].members = Append(@, e.member)]
      [] e.type = "CollateralDeposited" ->
           [r EXCEPT ![p].collateral[e.member] = e.amount]
      [] e.type = "ContributionMade" ->
           [r EXCEPT ![p].receipts = @ \cup {<<e.round, e.member>>}]
      [] e.type = "PayoutExecuted" ->
           [r EXCEPT ![p].paid = @ \cup {e.recipient}, ![p].currentRound = e.round + 1]
      [] e.type = "PoolCompleted" ->
           [r EXCEPT ![p].isActive = FALSE, ![p].currentRound = e.totalRounds]
      [] e.type = "CollateralReturned" ->
           [r EXCEPT ![p].collateral[e.member] = 0]
      [] e.type = "MemberDefaulted" ->
           [r EXCEPT ![p].defaulted = @ \cup {e.member}]
      [] e.type = "CollateralLiquidated" ->
           [r EXCEPT ![p].collateral[e.defaultedMember] = 0,
                     ![p].members = SelectSeq(@, LAMBDA m : m # e.defaultedMember)]

\* the events of one transaction applied in the order emitted
RECURSIVE ApplyAll(_, _)
ApplyAll(r, events) ==
    IF events = <<>> THEN r ELSE ApplyAll(Apply(r, Head(events)), Tail(events))

Init ==
    /\ poolCount = 0
    /\ pools = [p \in PoolIds |-> EmptyPool]
    /\ isMember = [p \in PoolIds |-> {}]
    /\ hasContributed = [p \in PoolIds |-> {}]
    /\ hasPaid = [p \in PoolIds |-> {}]
    /\ collateralBalances = [p \in PoolIds |-> [a \in Addr |-> 0]]
    /\ hasDefaulted = [p \in PoolIds |-> {}]
    /\ balance = 0
    /\ now = 0
    /\ inFlight = Idle
    /\ everMember = [p \in PoolIds |-> {}]
    /\ deposited = [p \in PoolIds |-> 0]
    /\ contributedIn = [p \in PoolIds |-> 0]
    /\ returned = [p \in PoolIds |-> 0]
    /\ forfeited = [p \in PoolIds |-> 0]
    /\ distributed = [p \in PoolIds |-> 0]
    /\ liquidations = [p \in PoolIds |-> 0]
    /\ received = [p \in PoolIds |-> [a \in Addr |-> 0]]
    /\ refunded = [p \in PoolIds |-> [a \in Addr |-> 0]]
    /\ payoutLog = [p \in PoolIds |-> <<>>]
    /\ fullSince = [p \in PoolIds |-> 0]
    /\ replica = [p \in PoolIds |-> EmptyReplica]

(***************************************************************************)
(* createPool                                                              *)
(***************************************************************************)
\* createPool computing the collateral without the overflow check of checked
\* arithmetic
CreatePoolErrUnchecked(amount, v) ==
    IF ~(amount > 0) THEN "Contribution amount must be greater than 0"
    ELSE IF v # RequiredCollateral(amount) THEN "Must send exact collateral amount"
    ELSE "ok"

CreatePoolErr(amount, v) ==
    IF ~(amount > 0) THEN "Contribution amount must be greater than 0"
    ELSE IF amount * COLLATERAL_PERCENT > MaxUint THEN "Panic: arithmetic overflow"
    ELSE IF v # RequiredCollateral(amount) THEN "Must send exact collateral amount"
    ELSE "ok"

\* the identifier of the pool created last, handed out again
NewPoolIdReused == IF poolCount > 0 THEN poolCount - 1 ELSE 0

\* line 347: uint256 newPoolId = poolCount
NewPoolId == poolCount

CreatePool(a, amount, v) ==
    /\ inFlight = Idle
    /\ poolCount < MaxPools
    /\ IF CreatePoolErr(amount, v) = "ok"
       THEN LET id == NewPoolId IN
            /\ pools' = [pools EXCEPT ![id] =
                   [poolId |-> id, maxMembers |-> MAX_MEMBERS,
                    contributionAmount |-> amount,
                    collateralPercent |-> COLLATERAL_PERCENT,
                    members |-> <<a>>, currentRound |-> 0, isActive |-> TRUE,
                    createdAt |-> now, creator |-> a, roundStartTime |-> now]]
            /\ isMember' = [isMember EXCEPT ![id] = @ \cup {a}]
            /\ collateralBalances' =
                   [collateralBalances EXCEPT ![id][a] = RequiredCollateral(amount)]
            /\ poolCount' = poolCount + 1
            /\ balance' = balance + v
            /\ everMember' = [everMember EXCEPT ![id] = @ \cup {a}]
            /\ deposited' = [deposited EXCEPT ![id] = @ + v]
            /\ replica' = ApplyAll(replica,
                   <<CollateralDeposited(id, a, RequiredCollateral(amount)),
                     PoolCreated(id, a, amount, now)>>)
            /\ UNCHANGED <<hasContributed, hasPaid, hasDefaulted, now, inFlight,
                           contributedIn, returned, forfeited, distributed,
                           liquidations, received, refunded, payoutLog, fullSince>>
       ELSE UNCHANGED vars

(***************************************************************************)
(* joinPool                                                                *)
(***************************************************************************)
\* joinPool without the check of line 414
JoinPoolErrNoMemberCheck(p, a, v) ==
    IF ~poolExists(p) THEN "Pool does not exist"
    ELSE IF ~poolActive(p) THEN "Pool is not active"
    ELSE IF ~(Len(pools[p].members) < MAX_MEMBERS) THEN "Pool is full"
    ELSE IF v # RequiredCollateral(pools[p].contributionAmount)
         THEN "Must send exact collateral amount"
    ELSE "ok"

\* joinPool with the requires of lines 411 and 414 in the other order
JoinPoolErrMemberFirst(p, a, v) ==
    IF ~poolExists(p) THEN "Pool does not exist"
    ELSE IF ~poolActive(p) THEN "Pool is not active"
    ELSE IF a \in isMember[p] THEN "Already a member of this pool"
    ELSE IF ~(Len(pools[p].members) < MAX_MEMBERS) THEN "Pool is full"
    ELSE IF v # RequiredCollateral(pools[p].contributionAmount)
         THEN "Must send exact collateral amount"
    ELSE "ok"

JoinPoolErr(p, a, v) ==
    IF ~poolExists(p) THEN "Pool does not exist"
    ELSE IF ~poolActive(p) THEN "Pool is not active"
    ELSE IF ~(Len(pools[p].members) < MAX_MEMBERS) THEN "Pool is full"
    ELSE IF a \in isMember[p] THEN "Already a member of this pool"
    ELSE IF v # RequiredCollateral(pools[p].contributionAmount)
         THEN "Must send exact collateral amount"
    ELSE "ok"

JoinPool(p, a, v) ==
    /\ inFlight = Idle
    /\ IF JoinPoolErr(p, a, v) = "ok"
       THEN /\ collateralBalances' =
                   [collateralBalances EXCEPT
                       ![p][a] = RequiredCollateral(pools[p].contributionAmount)]
            /\ pools' = [pools EXCEPT ![p].members = Append(@, a)]
            /\ isMember' = [isMember EXCEPT ![p] = @ \cup {a}]
            /\ balance' = balance + v
            /\ everMember' = [everMember EXCEPT ![p] = @ \cup {a}]
            /\ deposited' = [deposited EXCEPT ![p] = @ + v]
            /\ fullSince' = [fullSince EXCEPT ![p] =
                   IF Len(pools[p].members) + 1 = MAX_MEMBERS THEN now ELSE @]
            /\ replica' = ApplyAll(replica,
                   <<CollateralDeposited(p, a, RequiredCollateral(pools[p].contributionAmount)),
                     MemberJoined(p, a, Len(pools[p].members) + 1, now)>>)
            /\ UNCHANGED <<poolCount, hasContributed, hasPaid, hasDefaulted, now,
                           inFlight, contributedIn, returned, forfeited, distributed,
                           liquidations, received, refunded, payoutLog>>
       ELSE UNCHANGED vars

(***************************************************************************)
(* contribute                                                              *)
(***************************************************************************)
\* contribute without the check of line 608
ContributeErrNoDuplicateCheck(p, a, v) ==
    IF ~poolExists(p) THEN "Pool does not exist"
    ELSE IF ~poolActive(p) THEN "Pool is not active"
    ELSE IF ~onlyMember(p, a) THEN "Not a member of this pool"
    ELSE IF Len(pools[p].members) # MAX_MEMBERS
         THEN "Pool must be full (6/6 members) to start contributions"
    ELSE IF v # pools[p].contributionAmount THEN "Must send exact contribution amount"
    ELSE "ok"

\* contribute with the modifiers of lines 595 and 596 in the other order
ContributeErrMemberFirst(p, a, v) ==
    IF ~poolExists(p) THEN "Pool does not exist"
    ELSE IF ~onlyMember(p, a) THEN "Not a member of this pool"
    ELSE IF ~poolActive(p) THEN "Pool is not active"
    ELSE IF Len(pools[p].members) # MAX_MEMBERS
         THEN "Pool must be full (6/6 members) to start contributions"
    ELSE IF v # pools[p].contributionAmount THEN "Must send exact contribution amount"
    ELSE IF <<pools[p].currentRound, a>> \in hasContributed[p]
         THEN "Already contributed this round"
    ELSE "ok"

\* contribute without the require of line 602
ContributeErrAnySize(p, a, v) ==
    IF ~poolExists(p) THEN "Pool does not exist"
    ELSE IF ~poolActive(p) THEN "Pool is not active"
    ELSE IF ~onlyMember(p, a) THEN "Not a member of this pool"
    ELSE IF v # pools[p].contributionAmount THEN "Must send exact contribution amount"
    ELSE IF <<pools[p].currentRound, a>> \in hasContributed[p]
         THEN "Already contributed this round"
    ELSE "ok"

\* contribute without the test of msg.value against contributionAmount
ContributeErrAnyValue(p, a, v) ==
    IF ~poolExists(p) THEN "Pool does not exist"
    ELSE IF ~poolActive(p) THEN "Pool is not active"
    ELSE IF ~onlyMember(p, a) THEN "Not a member of this pool"
    ELSE IF Len(pools[p].members) # MAX_MEMBERS
         THEN "Pool must be full (6/6 members) to start contributions"
    ELSE IF <<pools[p].currentRound, a>> \in hasContributed[p]
         THEN "Already contributed this round"
    ELSE "ok"

ContributeErr(p, a, v) ==
    IF ~poolExists(p) THEN "Pool does not exist"
    ELSE IF ~poolActive(p) THEN "Pool is not active"
    ELSE IF ~onlyMember(p, a) THEN "Not a member of this pool"
    ELSE IF Len(pools[p].members) # MAX_MEMBERS
         THEN "Pool must be full (6/6 members) to start contributions"
    ELSE IF v # pools[p].contributionAmount THEN "Must send exact contribution amount"
    ELSE IF <<pools[p].currentRound, a>> \in hasContributed[p]
         THEN "Already contributed this round"
    ELSE "ok"

Contribute(p, a, v) ==
    /\ inFlight = Idle
    /\ IF ContributeErr(p, a, v) = "ok"
       THEN /\ hasContributed' =
                   [hasContributed EXCEPT ![p] = @ \cup {<<pools[p].currentRound, a>>}]
            /\ balance' = balance + v
            /\ contributedIn' = [contributedIn EXCEPT ![p] = @ + v]
            /\ replica' = Apply(replica, ContributionMade(p, a, v, pools[p].currentRound))
            /\ UNCHANGED <<poolCount, pools, isMember, hasPaid, collateralBalances,
                           hasDefaulted, now, inFlight, everMember, deposited, returned,
                           forfeited, distributed, liquidations, received, refunded,
                           payoutLog, fullSince>>
       ELSE UNCHANGED vars

(***************************************************************************)
(* executePayout                                                           *)
(***************************************************************************)
\* the payout computed from the fixed pool size
PayoutAmountFixedSize(p) == pools[p].contributionAmount * MAX_MEMBERS

PayoutAmount(p) == pools[p].contributionAmount * Len(pools[p].members)

\* executePayout without the check of line 693
ExecutePayoutErrNoPaidCheck(p) ==
    IF ~poolExists(p) THEN "Pool does not exist"
    ELSE IF ~poolActive(p) THEN "Pool is not active"
    ELSE IF ~AllContributed(p) THEN "Not all members have contributed this round"
    ELSE IF ~(balance >= PayoutAmount(p)) THEN "Insufficient contract balance"
    ELSE "ok"

\* the contribution check run over every pool there is
ExecutePayoutErrEveryPool(p) ==
    IF ~poolExists(p) THEN "Pool does not exist"
    ELSE IF ~poolActive(p) THEN "Pool is not active"
    ELSE IF ~(\A q \in PoolIds : poolExists(q) => AllContributed(q))
         THEN "Not all members have contributed this round"
    ELSE IF selectPayoutRecipient(p) \in hasPaid[p] THEN "Recipient has already been paid"
    ELSE IF ~(balance >= PayoutAmount(p)) THEN "Insufficient contract balance"
    ELSE "ok"

ExecutePayoutErr(p) ==
    IF ~poolExists(p) THEN "Pool does not exist"
    ELSE IF ~poolActive(p) THEN "Pool is not active"
    ELSE IF ~AllContributed(p) THEN "Not all members have contributed this round"
    ELSE IF selectPayoutRecipient(p) \in hasPaid[p] THEN "Recipient has already been paid"
    ELSE IF ~(balance >= PayoutAmount(p)) THEN "Insufficient contract balance"
    ELSE "ok"

\* the paid flags of earlier rounds dropped when a recipient is marked
PaidThisRoundOnly(p, r) == {r}

\* the paid flag written only after the transfer
PaidAfterTransfer(p, r) == hasPaid[p]

\* hasPaid[p] as it stands while the transfer to r runs (line 702 precedes 709)
PaidDuringTransfer(p, r) == hasPaid[p] \cup {r}

\* the round counted twice
RoundAdvancedTwice(pool) ==
    [pool EXCEPT !.currentRound = @ + 2,
                 !.roundStartTime = now,
                 !.isActive = IF pool.currentRound + 2 >= MAX_MEMBERS THEN FALSE ELSE @]

\* completion tested with > in place of >=
RoundAdvancedLate(pool) ==
    [pool EXCEPT !.currentRound = @ + 1,
                 !.roundStartTime = now,
                 !.isActive = IF pool.currentRound + 1 > MAX_MEMBERS THEN FALSE ELSE @]

\* lines 711-724: what executePayout writes to the pool after the transfer
\* the round counted without the reset of roundStartTime of line 715
RoundAdvancedSameStart(pool) ==
    [pool EXCEPT !.currentRound = @ + 1,
                 !.isActive = IF pool.currentRound + 1 >= MAX_MEMBERS THEN FALSE ELSE @]

RoundAdvanced(pool) ==
    [pool EXCEPT !.currentRound = @ + 1,
                 !.roundStartTime = now,
                 !.isActive = IF pool.currentRound + 1 >= MAX_MEMBERS THEN FALSE ELSE @]

PayoutRecord(p) ==
    [round |-> pools[p].currentRound, to |-> selectPayoutRecipient(p),
     amount |-> PayoutAmount(p), members |-> Len(pools[p].members)]

\* lines 679-709: the checks, the paid flag, and the transfer is under way.  A
\* transfer the recipient rejects reverts the transaction (the first disjunct).
ExecutePayout(p) ==
    /\ inFlight = Idle
    /\ IF ExecutePayoutErr(p) = "ok"
       THEN \/ UNCHANGED vars
            \/ /\ hasPaid' = [hasPaid EXCEPT ![p] = PaidDuringTransfer(p, selectPayoutRecipient(p))]
            /\ balance' = balance - PayoutAmount(p)
            /\ payoutLog' = [payoutLog EXCEPT ![p] = Append(@, PayoutRecord(p))]
            /\ inFlight' = [pool |-> p, recipient |-> selectPayoutRecipient(p),
                            amount |-> PayoutAmount(p), nested |-> "none"]
            /\ replica' = Apply(replica,
                   PayoutExecuted(p, selectPayoutRecipient(p), PayoutAmount(p),
                                  pools[p].currentRound))
            /\ UNCHANGED <<poolCount, pools, isMember, hasContributed,
                           collateralBalances, hasDefaulted, now, everMember,
                           deposited, contributedIn, returned, forfeited, distributed,
                           liquidations, received, refunded, fullSince>>
       ELSE UNCHANGED vars

\* lines 718-724: PoolCompleted is emitted when the round counted reaches 6
CompletionEvents(p) ==
    IF pools[p].currentRound + 1 >= MAX_MEMBERS
    THEN <<PoolCompleted(p, pools[p].currentRound + 1)>>
    ELSE <<>>

\* The recipient's code, running inside the transfer, calls executePayout on the
\* same pool.  (transfer() forwards 2300 gas, which no state-changing call
\* survives; the model lets the nested call run as the checks alone decide.)
ExecutePayoutReenter ==
    /\ inFlight # Idle
    /\ inFlight.nested = "none"
    /\ LET p == inFlight.pool
           e == ExecutePayoutErr(p) IN
       /\ inFlight' = [inFlight EXCEPT !.nested = e]
       /\ IF e = "ok"
          THEN /\ hasPaid' = [hasPaid EXCEPT ![p] = @ \cup {selectPayoutRecipient(p)}]
               /\ balance' = balance - PayoutAmount(p)
               /\ payoutLog' = [payoutLog EXCEPT ![p] = Append(@, PayoutRecord(p))]
               /\ pools' = [pools EXCEPT ![p] = RoundAdvanced(@)]
               /\ replica' = ApplyAll(replica,
                      <<PayoutExecuted(p, selectPayoutRecipient(p), PayoutAmount(p),
                                       pools[p].currentRound)>>
                      \o CompletionEvents(p))
               /\ UNCHANGED <<poolCount, isMember, hasContributed, collateralBalances,
                              hasDefaulted, now, everMember, deposited, contributedIn, returned,
                              forfeited, distributed, liquidations, received, refunded,
                              fullSince>>
          ELSE UNCHANGED <<engine, now, history, replica>>

\* lines 711-726: the transfer has returned.  The recipient is in hasPaid since
\* line 702, so the union below leaves hasPaid as it is.
ExecutePayoutReturn ==
    /\ inFlight # Idle
    /\ LET p == inFlight.pool IN
       /\ hasPaid' = [hasPaid EXCEPT ![p] = @ \cup {inFlight.recipient}]
       /\ pools' = [pools EXCEPT ![p] = RoundAdvanced(@)]
       /\ inFlight' = Idle
       /\ replica' = ApplyAll(replica, CompletionEvents(p))
       /\ UNCHANGED <<poolCount, isMember, hasContributed, collateralBalances,
                      hasDefaulted, balance, now, history>>

(***************************************************************************)
(* Queries                                                                 *)
(***************************************************************************)
getContributionCount(p) ==
    Cardinality({i \in DOMAIN pools[p].members :
        <<pools[p].currentRound, pools[p].members[i]>> \in hasContributed[p]})

\* without the test of members.length against MAX_MEMBERS
areAllMembersContributedAnySize(p) == AllContributed(p)

areAllMembersContributed(p) ==
    IF Len(pools[p].members) < MAX_MEMBERS THEN FALSE ELSE AllContributed(p)

getNextPayoutRecipient(p) == selectPayoutRecipient(p)

(***************************************************************************)
(* returnCollateral                                                        *)
(***************************************************************************)
\* returnCollateral without the require of line 914
ReturnCollateralErrAnyPool(p) ==
    IF ~poolExists(p) THEN "Pool does not exist"
    ELSE "ok"

ReturnCollateralErr(p) ==
    IF ~poolExists(p) THEN "Pool does not exist"
    ELSE IF pools[p].isActive THEN "Pool must be completed before returning collateral"
    ELSE "ok"

\* the total the loop of lines 917-935 sends out
ReturnTotal(p) == SumOver(collateralBalances[p], Range(pools[p].members))

\* the balance of the first member alone is reset, as if the writes made before
\* a rejected transfer stayed
ReturnedBalancesFirstOnly(p) ==
    [a \in Addr |-> IF a = pools[p].members[1] THEN 0 ELSE collateralBalances[p][a]]

\* line 927: the balance of every member is reset
ReturnedBalances(p) ==
    [a \in Addr |-> IF a \in Range(pools[p].members) THEN 0 ELSE collateralBalances[p][a]]

\* collateralBalances[p] as it stands while the transfer to the i-th member runs
\* (line 927 precedes line 934 in every turn of the loop)
BalancesDuringTransfer(p, i) ==
    [a \in Addr |-> IF \E j \in 1..i : pools[p].members[j] = a
                    THEN 0 ELSE collateralBalances[p][a]]

\* line 934: every member is sent the balance it held
Refunded(p) ==
    [a \in Addr |-> IF a \in Range(pools[p].members)
                    THEN refunded[p][a] + collateralBalances[p][a]
                    ELSE refunded[p][a]]

\* line 929: CollateralReturned for every member with a balance, in member order
ReturnEvents(p) ==
    LET ms == SelectSeq(pools[p].members, LAMBDA m : collateralBalances[p][m] > 0) IN
    [i \in 1..Len(ms) |-> CollateralReturned(p, ms[i], collateralBalances[p][ms[i]])]

\* A transfer a member rejects reverts the transaction (the first disjunct).
ReturnCollateral(p) ==
    /\ inFlight = Idle
    /\ IF ReturnCollateralErr(p) = "ok" /\ balance >= ReturnTotal(p)
       THEN \/ UNCHANGED vars
            \/ /\ collateralBalances' =
                      [collateralBalances EXCEPT ![p] = ReturnedBalances(p)]
               /\ balance' = balance - ReturnTotal(p)
               /\ returned' = [returned EXCEPT ![p] = @ + ReturnTotal(p)]
               /\ refunded' = [refunded EXCEPT ![p] = Refunded(p)]
               /\ replica' = ApplyAll(replica, ReturnEvents(p))
               /\ UNCHANGED <<poolCount, pools, isMember, hasContributed, hasPaid,
                              hasDefaulted, now, inFlight, everMember, deposited, contributedIn,
                              forfeited, distributed, liquidations, received, payoutLog,
                              fullSince>>
       ELSE UNCHANGED vars

(***************************************************************************)
(* checkForDefaults                                                        *)
(***************************************************************************)
\* checkForDefaults with >= in place of > in the require of lines 972-976
CheckForDefaultsErrAtDeadline(p) ==
    IF ~poolExists(p) THEN "Pool does not exist"
    ELSE IF ~poolActive(p) THEN "Pool is not active"
    ELSE IF ~(now >= pools[p].roundStartTime + CONTRIBUTION_DEADLINE)
         THEN "Contribution deadline has not passed yet"
    ELSE "ok"

CheckForDefaultsErr(p) ==
    IF ~poolExists(p) THEN "Pool does not exist"
    ELSE IF ~poolActive(p) THEN "Pool is not active"
    ELSE IF ~(now > pools[p].roundStartTime + CONTRIBUTION_DEADLINE)
         THEN "Contribution deadline has not passed yet"
    ELSE "ok"

\* the loop of lines 983-998 without the test of the default flag
NewDefaultersRemarked(p) ==
    SelectSeq(pools[p].members,
              LAMBDA m : <<pools[p].currentRound, m>> \notin hasContributed[p])

\* the members the loop of lines 983-998 marks, in member order
NewDefaulters(p) ==
    SelectSeq(pools[p].members,
              LAMBDA m : /\ <<pools[p].currentRound, m>> \notin hasContributed[p]
                         /\ m \notin hasDefaulted[p])

\* line 996: MemberDefaulted for every member marked, in member order
DefaultEvents(p) ==
    [i \in 1..Len(NewDefaulters(p)) |->
        MemberDefaulted(p, NewDefaulters(p)[i], pools[p].currentRound)]

CheckForDefaults(p) ==
    /\ inFlight = Idle
    /\ Cardinality(hasDefaulted[p] \cup Range(NewDefaulters(p))) <= MaxDefaulters
    /\ IF CheckForDefaultsErr(p) = "ok"
       THEN /\ hasDefaulted' = [hasDefaulted EXCEPT ![p] = @ \cup Range(NewDefaulters(p))]
            /\ replica' = ApplyAll(replica, DefaultEvents(p))
            /\ UNCHANGED <<poolCount, pools, isMember, hasContributed, hasPaid,
                           collateralBalances, balance, now, inFlight, history>>
       ELSE UNCHANGED vars

(***************************************************************************)
(* liquidateDefaultedMember                                                *)
(***************************************************************************)
\* liquidateDefaultedMember with the requires of lines 1046 and 1050 in the other
\* order
LiquidateErrCollateralFirst(p, d) ==
    IF ~poolExists(p) THEN "Pool does not exist"
    ELSE IF ~poolActive(p) THEN "Pool is not active"
    ELSE IF ~(collateralBalances[p][d] > 0) THEN "No collateral to liquidate"
    ELSE IF d \notin hasDefaulted[p] THEN "Member has not defaulted"
    ELSE IF ~(Len(pools[p].members) - 1 > 0) THEN "Cannot liquidate - no remaining members"
    ELSE IF d \notin Range(pools[p].members) THEN "Panic: array index out of bounds"
    ELSE "ok"

\* liquidateDefaultedMember without the modifier poolActive
LiquidateErrInactive(p, d) ==
    IF ~poolExists(p) THEN "Pool does not exist"
    ELSE IF d \notin hasDefaulted[p] THEN "Member has not defaulted"
    ELSE IF ~(collateralBalances[p][d] > 0) THEN "No collateral to liquidate"
    ELSE IF ~(Len(pools[p].members) - 1 > 0) THEN "Cannot liquidate - no remaining members"
    ELSE IF d \notin Range(pools[p].members) THEN "Panic: array index out of bounds"
    ELSE "ok"

LiquidateErr(p, d) ==
    IF ~poolExists(p) THEN "Pool does not exist"
    ELSE IF ~poolActive(p) THEN "Pool is not active"
    ELSE IF d \notin hasDefaulted[p] THEN "Member has not defaulted"
    ELSE IF ~(collateralBalances[p][d] > 0) THEN "No collateral to liquidate"
    ELSE IF ~(Len(pools[p].members) - 1 > 0) THEN "Cannot liquidate - no remaining members"
    ELSE IF d \notin Range(pools[p].members) THEN "Panic: array index out of bounds"
    ELSE "ok"

\* the share rounded up in place of the truncating division of line 1057
DistributionPerMemberRoundedUp(p, d) ==
    (collateralBalances[p][d] + Len(pools[p].members) - 2) \div (Len(pools[p].members) - 1)

DistributionPerMember(p, d) == collateralBalances[p][d] \div (Len(pools[p].members) - 1)

\* liquidation that leaves the defaulter's balance in place
LiquidatedBalancesKept(p, d) == collateralBalances[p]

\* line 1060: the defaulter's balance is cleared
LiquidatedBalances(p, d) == [collateralBalances[p] EXCEPT ![d] = 0]

\* the members array left as it is
MembersWithoutRebuild(members, d) == members

\* lines 1084-1098: the members array rebuilt without d
MembersWithout(members, d) == SelectSeq(members, LAMBDA m : m # d)

\* the remainder of the division sent to the first of the members left
SharesReceivedWithRemainder(p, d) ==
    LET left == MembersWithout(pools[p].members, d)
        rest == collateralBalances[p][d] % Len(left) IN
    [a \in Addr |-> IF a \in Range(left)
                    THEN received[p][a] + DistributionPerMember(p, d)
                            + (IF a = left[1] THEN rest ELSE 0)
                    ELSE received[p][a]]

\* lines 1069-1080: each member other than d is sent one share
SharesReceived(p, d) ==
    [a \in Addr |-> IF a \in Range(pools[p].members) /\ a # d
                    THEN received[p][a] + DistributionPerMember(p, d)
                    ELSE received[p][a]]

\* A transfer a member rejects reverts the transaction (the first disjunct).
LiquidateDefaultedMember(p, d) ==
    /\ inFlight = Idle
    /\ liquidations[p] < MaxLiquidations
    /\ IF /\ LiquidateErr(p, d) = "ok"
          /\ balance >= DistributionPerMember(p, d) * (Len(pools[p].members) - 1)
       THEN LET share == DistributionPerMember(p, d)
                n == Len(pools[p].members) - 1 IN
            \/ UNCHANGED vars
            \/ /\ collateralBalances' =
                      [collateralBalances EXCEPT ![p] = LiquidatedBalances(p, d)]
               /\ isMember' = [isMember EXCEPT ![p] = @ \ {d}]
               /\ pools' = [pools EXCEPT ![p].members = MembersWithout(@, d)]
               /\ balance' = balance - share * n
               /\ forfeited' = [forfeited EXCEPT ![p] = @ + collateralBalances[p][d]]
               /\ distributed' = [distributed EXCEPT ![p] = @ + share * n]
               /\ liquidations' = [liquidations EXCEPT ![p] = @ + 1]
               /\ received' = [received EXCEPT ![p] = SharesReceived(p, d)]
               /\ replica' = Apply(replica,
                      CollateralLiquidated(p, d, collateralBalances[p][d], share))
               /\ UNCHANGED <<poolCount, hasContributed, hasPaid, hasDefaulted, now,
                              inFlight, everMember, deposited, contributedIn, returned,
                              refunded, payoutLog, fullSince>>
       ELSE UNCHANGED vars

(***************************************************************************)
(* The clock.  Time is compared only with roundStartTime + 3600, so the    *)
(* clock moves to a deadline instant of an existing pool or to the instant *)
(* after it.                                                               *)
(***************************************************************************)
Instants ==
    {pools[p].roundStartTime + CONTRIBUTION_DEADLINE + d :
        p \in {q \in PoolIds : poolExists(q)}, d \in {0, 1}}

Tick ==
    /\ inFlight = Idle
    /\ \E t \in Instants :
        /\ t > now
        /\ t <= MaxTime
        /\ now' = t
    /\ UNCHANGED <<engine, inFlight, history, replica>>

\* One pool followed through its whole life.
Next ==
    \/ \E a \in Callers, amount \in Amounts, v \in DepositValues :
           poolCount < DeepPools /\ CreatePool(a, amount, v)
    \/ \E p \in DeepArgs, a \in Callers, v \in DepositValues : JoinPool(p, a, v)
    \/ \E p \in DeepArgs, a \in Callers, v \in PaidValues : Contribute(p, a, v)
    \/ \E p \in DeepArgs : ExecutePayout(p)
    \/ ExecutePayoutReenter
    \/ ExecutePayoutReturn
    \/ \E p \in DeepArgs : ReturnCollateral(p)
    \/ \E p \in DeepArgs : CheckForDefaults(p)
    \/ \E p \in DeepArgs, d \in Callers : LiquidateDefaultedMember(p, d)
    \/ Tick

Spec == Init /\ [][Next]_vars

(***************************************************************************)
(* The four functions without a caller restriction, with msg.sender made   *)
(* explicit.  None of them, and neither of their modifiers poolExists and  *)
(* poolActive, reads it.                                                   *)
(***************************************************************************)
\* executePayout open to members only
ExecutePayoutByMember(c, p) ==
    IF onlyMember(p, c) THEN ExecutePayout(p) ELSE inFlight = Idle /\ UNCHANGED vars

ExecutePayoutBy(c, p) == ExecutePayout(p)

CheckForDefaultsBy(c, p) == CheckForDefaults(p)

LiquidateDefaultedMemberBy(c, p, d) == LiquidateDefaultedMember(p, d)

ReturnCollateralBy(c, p) == ReturnCollateral(p)

\* One pool followed through its whole life, the caller of every call named.
NextCallers ==
    \/ \E a \in Callers, amount \in Amounts, v \in DepositValues :
           poolCount < DeepPools /\ CreatePool(a, amount, v)
    \/ \E p \in DeepArgs, a \in Callers, v \in DepositValues : JoinPool(p, a, v)
    \/ \E p \in DeepArgs, a \in Callers, v \in PaidValues : Contribute(p, a, v)
    \/ \E p \in DeepArgs, c \in Callers : ExecutePayoutBy(c, p)
    \/ ExecutePayoutReenter
    \/ ExecutePayoutReturn
    \/ \E p \in DeepArgs, c \in Callers : ReturnCollateralBy(c, p)
    \/ \E p \in DeepArgs, c \in Callers : CheckForDefaultsBy(c, p)
    \/ \E p \in DeepArgs, c \in Callers, d \in Callers : LiquidateDefaultedMemberBy(c, p, d)
    \/ Tick

SpecCallers == Init /\ [][NextCallers]_vars

\* The normal lifecycle: one pool, no liquidation.  Every member of a full pool
\* gets to contribute, a payout that can be made is made and its transfer
\* accepted and completed, and the collateral of a completed pool is sent back and
\* accepted.
NextLifecycle ==
    \/ \E a \in Callers, amount \in Amounts, v \in DepositValues :
           poolCount < DeepPools /\ CreatePool(a, amount, v)
    \/ \E p \in DeepArgs, a \in Callers, v \in DepositValues : JoinPool(p, a, v)
    \/ \E p \in DeepArgs, a \in Callers, v \in PaidValues : Contribute(p, a, v)
    \/ \E p \in DeepArgs : ExecutePayout(p)
    \/ ExecutePayoutReenter
    \/ ExecutePayoutReturn
    \/ \E p \in DeepArgs : ReturnCollateral(p)
    \/ \E p \in DeepArgs : CheckForDefaults(p)
    \/ Tick

Fairness ==
    /\ \A p \in DeepArgs, a \in Addr :
          WF_vars(\E v \in PaidValues : Contribute(p, a, v))
    /\ \A p \in DeepArgs : WF_vars(ExecutePayout(p))
    /\ WF_vars(ExecutePayoutReturn)
    /\ \A p \in DeepArgs : WF_vars(ReturnCollateral(p))

SpecLifecycle == Init /\ [][NextLifecycle]_vars /\ Fairness

\* One pool followed through its whole life, with collateral that leaves a
\* remainder when a liquidation divides it.
NextDust ==
    \/ \E a \in Callers, amount \in DustAmounts, v \in DustValues :
           poolCount < DeepPools /\ CreatePool(a, amount, v)
    \/ \E p \in DeepArgs, a \in Callers, v \in DustValues : JoinPool(p, a, v)
    \/ \E p \in DeepArgs, a \in Callers, v \in DustAmounts : Contribute(p, a, v)
    \/ \E p \in DeepArgs : ExecutePayout(p)
    \/ ExecutePayoutReenter
    \/ ExecutePayoutReturn
    \/ \E p \in DeepArgs : ReturnCollateral(p)
    \/ \E p \in DeepArgs : CheckForDefaults(p)
    \/ \E p \in DeepArgs, d \in Callers : LiquidateDefaultedMember(p, d)
    \/ Tick

SpecDust == Init /\ [][NextDust]_vars

\* Pools side by side: the first runs its rounds, the later ones stay small, and
\* the clock stands still until the first pool is complete.
NextPools ==
    \/ \E a \in Callers, amount \in Amounts, v \in DepositValues :
           CreatePool(a, amount, v)
    \/ \E p \in PoolArgs, a \in Callers, v \in DepositValues :
           /\ p >= DeepPools => Len(pools[p].members) < SideMembers
           /\ JoinPool(p, a, v)
    \/ \E p \in PoolArgs, a \in Callers, v \in PaidValues : Contribute(p, a, v)
    \/ \E p \in PoolArgs : ExecutePayout(p)
    \/ ExecutePayoutReenter
    \/ ExecutePayoutReturn
    \/ \E p \in PoolArgs : ReturnCollateral(p)
    \/ \E p \in PoolArgs : CheckForDefaults(p)
    \/ \E p \in PoolArgs, d \in Callers : LiquidateDefaultedMember(p, d)
    \/ (poolExists(0) /\ ~pools[0].isActive) /\ Tick

SpecPools == Init /\ [][NextPools]_vars

\* createPool with amounts and deposits of every size, and pools that take a few
\* members.
NextCreate ==
    \/ \E a \in Callers, amount \in CreateAmounts, v \in CreateDeposits :
           CreatePool(a, amount, v)
    \/ \E p \in PoolArgs, a \in Callers, v \in CreateDeposits :
           /\ Len(pools[p].members) < SideMembers
           /\ JoinPool(p, a, v)

SpecCreate == Init /\ [][NextCreate]_vars

(***************************************************************************)
(* Properties                                                              *)
(***************************************************************************)
Existing == {p \in PoolIds : poolExists(p)}

Members(p) == Range(pools[p].members)

HasReceipt(p, a) == <<pools[p].currentRound, a>> \in hasContributed[p]

\* the number of payouts of pool p that went to address a
PayoutsTo(p, a) == Cardinality({i \in DOMAIN payoutLog[p] : payoutLog[p][i].to = a})

\* a step in which a payout of pool p is transferred
PayoutStep(p) == payoutLog'[p] # payoutLog[p]

\* C1: executePayout goes through only on an active pool all of whose current
\* members hold a receipt for currentRound; in any other state its checks reject
\* the call, and no step outside such a state pays out, marks a recipient or
\* moves the round.
C1_PayoutOnlyWhenAllContributed ==
    /\ [](\A p \in PoolIds :
            (inFlight = Idle /\ ~(/\ poolExists(p)
                                  /\ pools[p].isActive
                                  /\ \A a \in Members(p) : HasReceipt(p, a)))
                => ExecutePayoutErr(p) # "ok")
    /\ [][\A p \in PoolIds :
            (\/ PayoutStep(p)
             \/ hasPaid'[p] # hasPaid[p]
             \/ pools'[p].currentRound # pools[p].currentRound)
                => /\ poolExists(p)
                   /\ pools[p].isActive
                   /\ \A a \in Members(p) : HasReceipt(p, a)]_vars

\* C1 witness: a payout has been made and the next round, not yet contributed to
\* by everyone, rejects executePayout.
C1_Witness ==
    /\ inFlight = Idle
    /\ Len(payoutLog[0]) >= 1
    /\ \E a \in Members(0) : HasReceipt(0, a)
    /\ ExecutePayoutErr(0) = "Not all members have contributed this round"

\* C2: no address receives more than one payout of a pool, a paid flag once set
\* stays set, and executePayout is rejected with "Recipient has already been
\* paid" when the selected recipient is marked paid.
C2_PaidAtMostOnce ==
    /\ [](\A p \in PoolIds : \A a \in Addr : PayoutsTo(p, a) <= 1)
    /\ [](\A p \in Existing :
            (/\ inFlight = Idle
             /\ pools[p].isActive
             /\ \A a \in Members(p) : HasReceipt(p, a)
             /\ pools[p].members[(pools[p].currentRound % Len(pools[p].members)) + 1]
                    \in hasPaid[p])
                => ExecutePayoutErr(p) = "Recipient has already been paid")
    /\ [][\A p \in PoolIds : hasPaid[p] \subseteq hasPaid'[p]]_vars

\* C2 witness: after a liquidation and a re-join the round-robin selects a member
\* that was paid before, and the payout is rejected.
C2_Witness ==
    /\ inFlight = Idle
    /\ liquidations[0] >= 1
    /\ Len(pools[0].members) = MAX_MEMBERS
    /\ ExecutePayoutErr(0) = "Recipient has already been paid"

\* C3: for every pool, the collateral balances of all current and former members,
\* plus what returnCollateral zeroed, plus what liquidation zeroed, add up to the
\* collateral deposited by createPool and joinPool.
C3_CollateralConservation ==
    \A p \in PoolIds :
        /\ SumOver(collateralBalances[p], everMember[p]) + returned[p] + forfeited[p]
              = deposited[p]
        /\ \A a \in Addr \ everMember[p] : collateralBalances[p][a] = 0

\* C3 witness: a pool in which collateral was forfeited, deposited again and
\* returned.
C3_Witness ==
    /\ forfeited[0] > 0
    /\ returned[0] > 0
    /\ deposited[0] > MAX_MEMBERS * RequiredCollateral(pools[0].contributionAmount)

\* C4: every existing pool has between 1 and 6 members and no address twice in
\* its members sequence.
C4_MembersBounded ==
    \A p \in Existing :
        /\ 0 < Len(pools[p].members)
        /\ Len(pools[p].members) <= 6
        /\ \A i, j \in DOMAIN pools[p].members :
              i # j => pools[p].members[i] # pools[p].members[j]

\* C4 witness: a pool that is full again after a liquidation, the liquidated
\* member having joined a second time.
C4_Witness ==
    /\ liquidations[0] = 1
    /\ Len(pools[0].members) = MAX_MEMBERS
    /\ Cardinality(everMember[0]) = MAX_MEMBERS

C6_RoundOnlyByPayout ==
    /\ [](\A p \in PoolIds :
            /\ pools[p].currentRound \in 0..6
            /\ inFlight.pool # p => pools[p].currentRound = Len(payoutLog[p])
            /\ inFlight.pool = p => pools[p].currentRound + 1 = Len(payoutLog[p]))
    /\ [][\A p \in PoolIds :
            /\ pools'[p].currentRound # pools[p].currentRound
                  => /\ pools'[p].currentRound = pools[p].currentRound + 1
                     /\ inFlight.pool = p
                     /\ inFlight' = Idle
            /\ (~poolExists(p) /\ poolExists(p)') => pools'[p].currentRound = 0]_vars

\* C6 witness: a pool that has run all its rounds after a liquidation.
C6_Witness ==
    /\ pools[0].currentRound = 6
    /\ liquidations[0] >= 1

\* C7: an existing pool is active exactly while currentRound < 6; it is made
\* inactive only by the payout that takes the round from 5 to 6, and an existing
\* inactive pool stays inactive.
C7_ActiveWhileRoundsRemain ==
    /\ [](\A p \in Existing : pools[p].isActive <=> pools[p].currentRound < 6)
    /\ [][\A p \in PoolIds :
            /\ (pools[p].isActive /\ ~pools'[p].isActive)
                  => /\ pools[p].currentRound = 5
                     /\ pools'[p].currentRound = 6
                     /\ inFlight.pool = p
                     /\ inFlight' = Idle
            /\ (poolExists(p) /\ ~pools[p].isActive) => ~pools'[p].isActive]_vars

\* C7 witness: a completed pool whose collateral has been returned.
C7_Witness ==
    /\ poolExists(0)
    /\ ~pools[0].isActive
    /\ returned[0] > 0

C9_PayoutRecipientAndAmount ==
    [][\A p \in PoolIds :
        PayoutStep(p) =>
            LET n == Len(pools[p].members)
                r == pools[p].members[(pools[p].currentRound % n) + 1]
                amt == pools[p].contributionAmount * n IN
            /\ payoutLog'[p] = Append(payoutLog[p],
                   [round |-> pools[p].currentRound, to |-> r, amount |-> amt,
                    members |-> n])
            /\ r = getNextPayoutRecipient(p)
            /\ inFlight' = [pool |-> p, recipient |-> r, amount |-> amt,
                            nested |-> "none"]
            /\ balance' = balance - amt
            /\ hasPaid'[p] = hasPaid[p] \cup {r}
            /\ (pools[p].currentRound = 0 /\ n = 6 /\ liquidations[p] = 0)
                  => r = pools[p].creator /\ amt = 6 * pools[p].contributionAmount]_vars

\* C9 witness: payouts were made both with 6 members and with 5.
C9_Witness ==
    /\ \E i \in DOMAIN payoutLog[0] : payoutLog[0][i].members = 5
    /\ \E i \in DOMAIN payoutLog[0] :
          payoutLog[0][i].members = 6 /\ payoutLog[0][i].amount = 600

\* C10: while the transfer of a payout runs the recipient is already marked paid
\* and currentRound is not yet incremented; executePayout called on the same pool
\* from inside the transfer is rejected with "Recipient has already been paid";
\* no round of a pool is paid out twice.
C10_NoReentrantDoublePayout ==
    /\ inFlight # Idle =>
          LET p == inFlight.pool IN
          /\ inFlight.recipient \in hasPaid[p]
          /\ payoutLog[p][Len(payoutLog[p])].round = pools[p].currentRound
          /\ ExecutePayoutErr(p) = "Recipient has already been paid"
          /\ inFlight.nested \in {"none", "Recipient has already been paid"}
    /\ \A p \in PoolIds : \A i, j \in DOMAIN payoutLog[p] :
          i # j => payoutLog[p][i].round # payoutLog[p][j].round

\* C10 witness: the recipient has called back during the transfer and was
\* rejected.
C10_Witness ==
    /\ inFlight # Idle
    /\ inFlight.nested = "Recipient has already been paid"

\* the engine state of pool p
PoolState(p) ==
    <<pools[p], isMember[p], hasContributed[p], hasPaid[p], collateralBalances[p],
      hasDefaulted[p]>>

\* a step in which createPool or joinPool adds a member to pool p
JoinStep(p) == Len(pools'[p].members) > Len(pools[p].members)

\* a step in which liquidateDefaultedMember removes a member from pool p
LiquidationStep(p) == Len(pools'[p].members) < Len(pools[p].members)

\* a step in which returnCollateral sends collateral of pool p back
ReturnStep(p) == refunded'[p] # refunded[p]

\* C11: a step changes the state of a pool or the funds held only as one complete
\* successful call: the checks of the operation passed in the state it was called
\* in, and the funds moved together with everything the operation writes.  A call
\* whose checks fail, or whose outgoing transfer is rejected, changes nothing.
C11_FailingCallsChangeNothing ==
    [][/\ \A p \in PoolIds :
            /\ PoolState(p)' # PoolState(p)
                  => \/ JoinStep(p)
                     \/ hasContributed'[p] # hasContributed[p]
                     \/ PayoutStep(p)
                     \/ inFlight # Idle /\ inFlight.pool = p /\ inFlight' = Idle
                     \/ hasDefaulted'[p] # hasDefaulted[p]
                     \/ LiquidationStep(p)
                     \/ ReturnStep(p)
            /\ JoinStep(p)
                  => \E a \in Addr \ isMember[p] :
                        /\ \/ ~poolExists(p) /\ p = poolCount /\ poolCount' = poolCount + 1
                           \/ \E v \in DepositValues : JoinPoolErr(p, a, v) = "ok"
                        /\ pools'[p].members = Append(pools[p].members, a)
                        /\ isMember'[p] = isMember[p] \cup {a}
                        /\ balance' = balance + collateralBalances'[p][a]
                        /\ deposited'[p] = deposited[p] + collateralBalances'[p][a]
            /\ hasContributed'[p] # hasContributed[p]
                  => \E a \in Addr :
                        /\ ContributeErr(p, a, pools[p].contributionAmount) = "ok"
                        /\ hasContributed'[p] =
                              hasContributed[p] \cup {<<pools[p].currentRound, a>>}
                        /\ balance' = balance + pools[p].contributionAmount
                        /\ <<pools[p], isMember[p], hasPaid[p]>>' =
                              <<pools[p], isMember[p], hasPaid[p]>>
            /\ (PayoutStep(p) \/ hasPaid'[p] # hasPaid[p])
                  => /\ ExecutePayoutErr(p) = "ok"
                     /\ hasPaid'[p] = hasPaid[p] \cup {selectPayoutRecipient(p)}
                     /\ Len(payoutLog'[p]) = Len(payoutLog[p]) + 1
                     /\ balance' = balance - PayoutAmount(p)
            /\ pools'[p].currentRound # pools[p].currentRound
                  => inFlight # Idle /\ inFlight.pool = p /\ balance' <= balance
            /\ hasDefaulted'[p] # hasDefaulted[p]
                  => /\ CheckForDefaultsErr(p) = "ok"
                     /\ balance' = balance
                     /\ <<pools[p], isMember[p], hasContributed[p], hasPaid[p],
                          collateralBalances[p]>>' =
                        <<pools[p], isMember[p], hasContributed[p], hasPaid[p],
                          collateralBalances[p]>>
            /\ (LiquidationStep(p) \/ isMember[p] \ isMember'[p] # {}
                                   \/ forfeited'[p] # forfeited[p])
                  => \E d \in Addr :
                        /\ LiquidateErr(p, d) = "ok"
                        /\ collateralBalances'[p] = [collateralBalances[p] EXCEPT ![d] = 0]
                        /\ isMember'[p] = isMember[p] \ {d}
                        /\ pools'[p] =
                              [pools[p] EXCEPT !.members = MembersWithout(pools[p].members, d)]
                        /\ balance' = balance - SumOver(received'[p], Addr)
                                              + SumOver(received[p], Addr)
            /\ (ReturnStep(p) \/ returned'[p] # returned[p])
                  => /\ ReturnCollateralErr(p) = "ok"
                     /\ \A a \in Members(p) : collateralBalances'[p][a] = 0
                     /\ balance' = balance - SumOver(refunded'[p], Addr)
                                           + SumOver(refunded[p], Addr)
                     /\ returned'[p] - returned[p] = balance - balance'
                     /\ <<pools[p], isMember[p], hasContributed[p], hasPaid[p],
                          hasDefaulted[p]>>' =
                        <<pools[p], isMember[p], hasContributed[p], hasPaid[p],
                          hasDefaulted[p]>>
       /\ (balance' # balance \/ poolCount' # poolCount)
             => \E p \in PoolIds : PoolState(p)' # PoolState(p)]_vars

\* C11 witness: after a payout, a pool in which a liquidation passes its checks
\* (its transfers may still be rejected) while createPool with no amount,
\* joinPool by a member, contribute, executePayout and returnCollateral are all
\* turned down.
C11_Witness ==
    /\ inFlight = Idle
    /\ Len(payoutLog[0]) >= 1
    /\ \E d \in Members(0) : LiquidateErr(0, d) = "ok"
    /\ CreatePoolErr(0, 10) # "ok"
    /\ \A a \in Members(0) : JoinPoolErr(0, a, 10) # "ok"
    /\ \A a \in Addr : ContributeErr(0, a, 100) # "ok"
    /\ ExecutePayoutErr(0) # "ok"
    /\ ReturnCollateralErr(0) # "ok"

\* the position of x in the sequence s
IndexOf(s, x) == CHOOSE i \in DOMAIN s : s[i] = x

\* the current members of p without a receipt for currentRound and not yet marked
Unmarked(p) == {a \in Members(p) : ~HasReceipt(p, a) /\ a \notin hasDefaulted[p]}

\* C12: on an active pool checkForDefaults is rejected with "Contribution
\* deadline has not passed yet" while now <= roundStartTime + 3600, the boundary
\* included; once now > roundStartTime + 3600 it passes, and what it returns and
\* marks are exactly the current members without a receipt for currentRound that
\* were not marked before, in member order: nobody when all have contributed.
\* No default flag is set before the deadline has passed.
C12_DefaultsAfterDeadline ==
    /\ [](\A p \in Existing :
            (inFlight = Idle /\ pools[p].isActive)
               => IF now <= pools[p].roundStartTime + 3600
                  THEN CheckForDefaultsErr(p) = "Contribution deadline has not passed yet"
                  ELSE /\ CheckForDefaultsErr(p) = "ok"
                       /\ Range(NewDefaulters(p)) = Unmarked(p)
                       /\ Len(NewDefaulters(p)) = Cardinality(Unmarked(p))
                       /\ \A i, j \in DOMAIN NewDefaulters(p) :
                             i < j => IndexOf(pools[p].members, NewDefaulters(p)[i])
                                         < IndexOf(pools[p].members, NewDefaulters(p)[j])
                       /\ (\A a \in Members(p) : HasReceipt(p, a))
                             => NewDefaulters(p) = <<>>)
    /\ [][\A p \in PoolIds :
            hasDefaulted'[p] # hasDefaulted[p]
               => /\ pools[p].isActive
                  /\ now > pools[p].roundStartTime + 3600
                  /\ hasDefaulted'[p] = hasDefaulted[p] \cup Unmarked(p)]_vars

\* C12 witness: five of six members contributed, the deadline has passed, and the
\* sixth is the one member marked.
C12_Witness ==
    /\ inFlight = Idle
    /\ Len(pools[0].members) = 6
    /\ getContributionCount(0) = 5
    /\ now > pools[0].roundStartTime + 3600
    /\ hasDefaulted[0] = {a \in Members(0) : ~HasReceipt(0, a)}
    /\ NewDefaulters(0) = <<>>

\* C13: in the state a successful checkForDefaults leaves, checkForDefaults passes
\* its checks again, returns the empty list and marks nobody; a default flag is
\* set only on an address that did not carry it, and no step clears one.
C13_CheckForDefaultsIdempotent ==
    [][\A p \in PoolIds :
          /\ hasDefaulted[p] \subseteq hasDefaulted'[p]
          /\ hasDefaulted'[p] # hasDefaulted[p]
                => /\ Range(NewDefaulters(p)) \cap hasDefaulted[p] = {}
                   /\ CheckForDefaultsErr(p)' = "ok"
                   /\ NewDefaulters(p)' = <<>>
                   /\ (hasDefaulted[p] \cup Range(NewDefaulters(p)))' = hasDefaulted'[p]]_vars

\* C13 witness: checkForDefaults has marked a member that still has no receipt,
\* and a further call passes its checks and finds nobody to mark.
C13_Witness ==
    /\ inFlight = Idle
    /\ \E a \in Members(0) \cap hasDefaulted[0] : ~HasReceipt(0, a)
    /\ CheckForDefaultsErr(0) = "ok"
    /\ NewDefaulters(0) = <<>>
    /\ Len(payoutLog[0]) >= 1

C15_LiquidationRejected ==
    /\ [](\A p \in PoolIds : \A d \in Addr :
            inFlight = Idle =>
               /\ LiquidateErr(p, d) =
                     IF ~(p < poolCount) THEN "Pool does not exist"
                     ELSE IF ~pools[p].isActive THEN "Pool is not active"
                     ELSE IF d \notin hasDefaulted[p] THEN "Member has not defaulted"
                     ELSE IF collateralBalances[p][d] = 0 THEN "No collateral to liquidate"
                     ELSE IF Len(pools[p].members) = 1
                          THEN "Cannot liquidate - no remaining members"
                     ELSE "ok"
               /\ LiquidateErr(p, d) = "ok" => d \in Members(p))
    /\ [](\A p \in Existing : Len(pools[p].members) >= 1)
    /\ [][\A p \in PoolIds :
            LiquidationStep(p) =>
               \E d \in Members(p) :
                  /\ LiquidateErr(p, d) = "ok"
                  /\ forfeited'[p] - forfeited[p] = collateralBalances[p][d]
                  /\ LiquidateErr(p, d)' = "No collateral to liquidate"]_vars

\* C15 witness: a liquidation has left a pool with one member; the liquidated
\* address is still marked and has no collateral, the remaining one is not
\* marked.
C15_Witness ==
    /\ inFlight = Idle
    /\ liquidations[0] = 1
    /\ Len(pools[0].members) = 1
    /\ \E d \in Addr : LiquidateErr(0, d) = "No collateral to liquidate"
    /\ \E d \in Members(0) : LiquidateErr(0, d) = "Member has not defaulted"

\* C16: a liquidation leaves the pool active, and the members that remain of a
\* pool of six go on without a new member: after the round in progress is paid
\* out, each of them that has no receipt for the current round can contribute.
C16_PoolContinuesAfterLiquidation ==
    /\ [][\A p \in PoolIds : LiquidationStep(p) => pools'[p].isActive]_vars
    /\ [](\A p \in Existing :
            (/\ inFlight = Idle
             /\ pools[p].isActive
             /\ liquidations[p] >= 1
             /\ Cardinality(everMember[p]) = MAX_MEMBERS
             /\ Len(pools[p].members) = MAX_MEMBERS - 1
             /\ pools[p].currentRound >= 1)
                => \A a \in Members(p) :
                      ~HasReceipt(p, a)
                         => ContributeErr(p, a, pools[p].contributionAmount) = "ok")

\* C17: in the step that completes a pool, executePayout bringing currentRound
\* to 6 and clearing isActive, every address that is then a member of the pool has
\* received exactly one payout of it.
C17_AllMembersPaidAtCompletion ==
    [][\A p \in PoolIds :
          (pools[p].isActive /\ ~pools'[p].isActive)
             => /\ pools'[p].currentRound = 6
                /\ \A a \in Range(pools'[p].members) :
                      Cardinality({i \in DOMAIN payoutLog'[p] : payoutLog'[p][i].to = a}) = 1]_vars

\* no call is running, pool p is active, every current member holds a receipt for
\* currentRound, and members[currentRound mod members.length] is marked paid
Locked(p) ==
    /\ inFlight = Idle
    /\ poolExists(p)
    /\ pools[p].isActive
    /\ \A a \in Members(p) : HasReceipt(p, a)
    /\ pools[p].members[(pools[p].currentRound % Len(pools[p].members)) + 1] \in hasPaid[p]

\* C18: in a state where the pool is active, all current members hold receipts
\* and the round-robin index selects a paid member, executePayout is rejected
\* with "Recipient has already been paid"; a step from such a state that leaves
\* members as it is leaves currentRound as it is, the pool active, and the pool in
\* such a state.  (That a liquidation leads to such a state is the witness.)
C18_PayoutBlockedAfterLiquidation ==
    /\ [](\A p \in PoolIds :
            Locked(p) => ExecutePayoutErr(p) = "Recipient has already been paid")
    /\ [][\A p \in PoolIds :
            (Locked(p) /\ pools'[p].members = pools[p].members)
               => /\ pools'[p].currentRound = pools[p].currentRound
                  /\ pools'[p].isActive
                  /\ Len(payoutLog'[p]) = Len(payoutLog[p])
                  /\ Locked(p)']_vars

\* C18 witness: the sixth member was liquidated in round 5; the five that remain
\* all hold receipts for round 5, and 5 mod 5 selects the first, paid in round 0.
C18_Witness ==
    /\ Locked(0)
    /\ liquidations[0] = 1
    /\ Len(pools[0].members) = 5
    /\ pools[0].currentRound = 5
    /\ Cardinality(everMember[0]) = 6

CreateStep(p) == p = poolCount /\ poolCount' = poolCount + 1

\* C20 as stated: for every contribution amount and deposit createPool passes its
\* checks exactly when the amount is positive and the deposit is
\* floor(amount * 10 / 100); it is rejected with "Contribution amount must be
\* greater than 0" when the amount is 0 and with "Must send exact collateral
\* amount" for any other deposit.
C20_CreatePoolForEveryAmount ==
    \A amount \in CreateAmounts : \A v \in CreateDeposits :
        (inFlight = Idle /\ poolCount < MaxPools) =>
            CreatePoolErr(amount, v) =
               IF amount = 0 THEN "Contribution amount must be greater than 0"
               ELSE IF v # (amount * 10) \div 100 THEN "Must send exact collateral amount"
               ELSE "ok"

\* C20: for every contribution amount whose product with 10 fits an unsigned
\* integer, and every deposit, createPool passes its checks exactly when the
\* amount is positive and the deposit is floor(amount * 10 / 100), 0 for amounts
\* below 10; it is rejected with "Contribution amount must be greater than 0"
\* when the amount is 0, whatever the deposit, and with "Must send exact
\* collateral amount" for any other deposit.  For a larger amount the
\* multiplication overflows and the call is rejected whatever the deposit.  The
\* pool a successful call creates is active, at round 0, has the caller as
\* creator and only member, and records the deposit as the caller's collateral
\* balance.
C20_CreatePool ==
    /\ [](\A amount \in CreateAmounts : \A v \in CreateDeposits :
            (inFlight = Idle /\ poolCount < MaxPools) =>
            CreatePoolErr(amount, v) =
               IF amount = 0 THEN "Contribution amount must be greater than 0"
               ELSE IF amount * 10 > MaxUint THEN "Panic: arithmetic overflow"
               ELSE IF v # (amount * 10) \div 100 THEN "Must send exact collateral amount"
               ELSE "ok")
    /\ [][\A p \in PoolIds :
            CreateStep(p) =>
               \E a \in Addr :
                  LET amount == pools'[p].contributionAmount
                      v == balance' - balance IN
                  /\ amount > 0
                  /\ v = (amount * 10) \div 100
                  /\ amount < 10 => v = 0
                  /\ pools'[p].isActive
                  /\ pools'[p].currentRound = 0
                  /\ pools'[p].creator = a
                  /\ pools'[p].members = <<a>>
                  /\ isMember'[p] = {a}
                  /\ collateralBalances'[p] = [b \in Addr |-> IF b = a THEN v ELSE 0]
                  /\ hasContributed'[p] = {} /\ hasPaid'[p] = {} /\ hasDefaulted'[p] = {}]_vars

\* C20 witness: one pool was created with an amount below 10 and no deposit,
\* another with the largest amount whose tenfold fits and a tenth of it.
C20_Witness ==
    /\ poolCount = 2
    /\ pools[0].contributionAmount = 9
    /\ collateralBalances[0][pools[0].creator] = 0
    /\ pools[1].contributionAmount = MaxUint \div 10
    /\ collateralBalances[1][pools[1].creator] = (MaxUint \div 10) \div 10

\* C21: the pools created are those numbered 0 .. poolCount - 1, each carrying its
\* own number as poolId, and no other pool has any field set; a step that changes
\* poolCount adds 1 to it and creates the pool of the former poolCount, so a
\* failing createPool takes no identifier; poolId, contributionAmount and creator
\* of a created pool never change.
C21_PoolIdsSequential ==
    /\ [](/\ poolCount \in 0..MaxPools
          /\ Cardinality({p \in PoolIds : pools[p].creator # NoAddr}) = poolCount
          /\ \A p \in PoolIds :
                IF p < poolCount
                THEN pools[p].poolId = p /\ pools[p].contributionAmount > 0
                ELSE pools[p] = EmptyPool)
    /\ [][poolCount' # poolCount
             => /\ poolCount' = poolCount + 1
                /\ pools'[poolCount].poolId = poolCount
                /\ pools'[poolCount].creator \in Addr]_vars
    /\ [][\A p \in PoolIds :
             p < poolCount
                => /\ pools'[p].poolId = pools[p].poolId
                   /\ pools'[p].contributionAmount = pools[p].contributionAmount
                   /\ pools'[p].creator = pools[p].creator
                   /\ pools'[p].createdAt = pools[p].createdAt]_vars

\* C21 witness: two pools were created; the first has run all its rounds, the
\* second has lost its creator to a liquidation.
C21_Witness ==
    /\ poolCount = 2
    /\ pools[0].currentRound = 6
    /\ liquidations[1] = 1
    /\ pools[1].creator \notin isMember[1]

\* C22: joinPool(p) by a with deposit v is rejected, first, when the pool does not
\* exist, then when it is inactive, then when it has 6 members, then when a is a
\* member, then when v is not floor(contributionAmount * 10 / 100), and passes
\* otherwise; a step that adds a member to an existing pool appends the caller to
\* members, marks it a member, sets its collateral balance to the required
\* amount, takes that amount in, and changes nothing else of the pool.
C22_JoinPool ==
    /\ [](\A p \in PoolIds : \A a \in Addr : \A v \in DepositValues :
            inFlight = Idle =>
               JoinPoolErr(p, a, v) =
                  IF ~(p < poolCount) THEN "Pool does not exist"
                  ELSE IF ~pools[p].isActive THEN "Pool is not active"
                  ELSE IF Len(pools[p].members) = 6 THEN "Pool is full"
                  ELSE IF a \in isMember[p] THEN "Already a member of this pool"
                  ELSE IF v # (pools[p].contributionAmount * 10) \div 100
                       THEN "Must send exact collateral amount"
                  ELSE "ok")
    /\ [][\A p \in PoolIds :
            (JoinStep(p) /\ p < poolCount)
               => \E a \in Addr \ isMember[p] :
                     LET c == (pools[p].contributionAmount * 10) \div 100 IN
                     /\ pools'[p] = [pools[p] EXCEPT !.members = Append(pools[p].members, a)]
                     /\ isMember'[p] = isMember[p] \cup {a}
                     /\ collateralBalances'[p] = [collateralBalances[p] EXCEPT ![a] = c]
                     /\ balance' = balance + c
                     /\ <<hasContributed, hasPaid, hasDefaulted, poolCount, now>>' =
                           <<hasContributed, hasPaid, hasDefaulted, poolCount, now>>
                     /\ \A q \in PoolIds \ {p} : PoolState(q)' = PoolState(q)]_vars

\* C22 witness: the pool is full after an address has joined in the place of a
\* liquidated member; a member and the liquidated address are both turned down
\* with "Pool is full".
C22_Witness ==
    /\ inFlight = Idle
    /\ pools[0].isActive
    /\ liquidations[0] = 1
    /\ Len(pools[0].members) = 6
    /\ \E a \in isMember[0] : JoinPoolErr(0, a, 10) = "Pool is full"
    /\ \E a \in Addr \ isMember[0] : JoinPoolErr(0, a, 10) = "Pool is full"

\* C23: a step that changes the receipts of a pool adds one receipt, for
\* currentRound and an address that is a current member, in an active pool of
\* exactly 6 members, takes in exactly contributionAmount, and changes nothing
\* else; on an existing active pool contribute is rejected with "Not a member of
\* this pool" for a non-member, then with the pool-must-be-full error while the
\* pool has not 6 members (in round 0 and after a liquidation alike), then with
\* "Must send exact contribution amount" for any other value.
C23_ReceiptOnlyByContribute ==
    /\ [](\A p \in Existing : \A a \in Addr : \A v \in PaidValues :
            (inFlight = Idle /\ pools[p].isActive) =>
               /\ a \notin isMember[p]
                     => ContributeErr(p, a, v) = "Not a member of this pool"
               /\ (a \in isMember[p] /\ Len(pools[p].members) # 6)
                     => ContributeErr(p, a, v) =
                           "Pool must be full (6/6 members) to start contributions"
               /\ (a \in isMember[p] /\ Len(pools[p].members) = 6
                                     /\ v # pools[p].contributionAmount)
                     => ContributeErr(p, a, v) = "Must send exact contribution amount"
               /\ ContributeErr(p, a, v) = "ok"
                     => /\ a \in Members(p) /\ Len(pools[p].members) = 6
                        /\ v = pools[p].contributionAmount /\ ~HasReceipt(p, a))
    /\ [][\A p \in PoolIds :
            hasContributed'[p] # hasContributed[p]
               => \E a \in isMember[p] \cap Members(p) :
                     /\ p < poolCount
                     /\ pools[p].isActive
                     /\ Len(pools[p].members) = 6
                     /\ ~HasReceipt(p, a)
                     /\ hasContributed'[p] =
                           hasContributed[p] \cup {<<pools[p].currentRound, a>>}
                     /\ balance' = balance + pools[p].contributionAmount
                     /\ <<poolCount, pools, isMember, hasPaid, collateralBalances,
                          hasDefaulted, now, inFlight>>' =
                        <<poolCount, pools, isMember, hasPaid, collateralBalances,
                          hasDefaulted, now, inFlight>>
                     /\ \A q \in PoolIds \ {p} : hasContributed'[q] = hasContributed[q]]_vars

\* C23 witness: a pool that a liquidation took down to 5 members in a round after
\* round 0 holds receipts for the current round, and its members are turned down
\* with the pool-must-be-full error.
C23_Witness ==
    /\ inFlight = Idle
    /\ pools[0].isActive
    /\ pools[0].currentRound >= 1
    /\ Len(pools[0].members) = 5
    /\ \E a \in Members(0) : HasReceipt(0, a)
    /\ \A a \in Members(0) :
          ContributeErr(0, a, 100) = "Pool must be full (6/6 members) to start contributions"

PaidOut(p) ==
    SumOver([i \in DOMAIN payoutLog[p] |-> payoutLog[p][i].amount], DOMAIN payoutLog[p])

\* the contributions of pool p still held by the engine
Pot(p) == contributedIn[p] - PaidOut(p)

\* the part of address(this).balance that pool p brought in and has not sent out
OwnFunds(p) == deposited[p] + contributedIn[p] - PaidOut(p) - returned[p] - distributed[p]

\* the outcome of every call that can be addressed to pool p
Outcomes(p) ==
    <<ExecutePayoutErr(p), ReturnCollateralErr(p), CheckForDefaultsErr(p),
      [d \in Addr |-> LiquidateErr(p, d)],
      [a \in Addr |-> [v \in DepositValues |-> JoinPoolErr(p, a, v)]],
      [a \in Addr |-> [v \in PaidValues |-> ContributeErr(p, a, v)]]>>

\* C25: a step changes the members, round, active flag, receipts, paid and default
\* flags and collateral balances of at most one pool, and a step that changes
\* another pool leaves the outcome of every call addressed to pool p as it was.
\* The engine's balance is the sum of what each pool brought in and has not sent
\* out, and each pool's own part covers its payout, its collateral and its
\* forfeiture shares, so the balance checks of executePayout and of the transfers
\* never fail and never lean on another pool's funds.
C25_PoolsIndependent ==
    /\ [](/\ balance = SumOver([p \in PoolIds |-> OwnFunds(p)], PoolIds)
          /\ \A p \in PoolIds :
                /\ Pot(p) >= 0
                /\ forfeited[p] >= distributed[p]
                /\ OwnFunds(p) = SumOver(collateralBalances[p], Addr) + Pot(p)
                                    + (forfeited[p] - distributed[p])
                /\ ExecutePayoutErr(p) # "Insufficient contract balance"
                /\ (poolExists(p) /\ poolActive(p) /\ AllContributed(p)
                      /\ selectPayoutRecipient(p) \notin hasPaid[p])
                      => Pot(p) >= PayoutAmount(p))
    /\ [][\A p, q \in PoolIds :
             (p # q /\ PoolState(q)' # PoolState(q))
                => /\ PoolState(p)' = PoolState(p)
                   /\ Outcomes(p)' = Outcomes(p)]_vars

\* C25 witness: the last payout of the first pool is being transferred while the
\* second pool holds collateral of its own.
C25_Witness ==
    /\ poolCount = 2
    /\ inFlight # Idle
    /\ inFlight.pool = 0
    /\ Len(payoutLog[0]) = MAX_MEMBERS
    /\ OwnFunds(1) > 0
    /\ balance > OwnFunds(0)

\* C26: for every existing pool, getContributionCount is the number of current
\* members holding a receipt for currentRound, and areAllMembersContributed is
\* true exactly when the pool has 6 members and each of them holds a receipt for
\* currentRound.  Both are functions of the state and change nothing.
C26_Queries ==
    \A p \in Existing :
        /\ getContributionCount(p) = Cardinality({a \in Members(p) : HasReceipt(p, a)})
        /\ getContributionCount(p) \in 0..Len(pools[p].members)
        /\ areAllMembersContributed(p)
              <=> /\ Len(pools[p].members) = MAX_MEMBERS
                  /\ \A a \in Members(p) : HasReceipt(p, a)
        /\ areAllMembersContributed(p) => getContributionCount(p) = MAX_MEMBERS

\* C26 witness: after a liquidation the five members left all hold a receipt for
\* the current round, so the count is 5 and the answer is false.
C26_Witness ==
    /\ poolActive(0)
    /\ Len(pools[0].members) = MAX_MEMBERS - 1
    /\ getContributionCount(0) = MAX_MEMBERS - 1
    /\ AllContributed(0)
    /\ ~areAllMembersContributed(0)

\* pool p has run all its rounds and sent its collateral back
Settled(p) ==
    /\ ~pools[p].isActive
    /\ pools[p].currentRound = MAX_MEMBERS
    /\ Len(payoutLog[p]) = MAX_MEMBERS
    /\ \A r \in 1..MAX_MEMBERS :
          /\ payoutLog[p][r].round = r - 1
          /\ payoutLog[p][r].to = pools[p].members[r]
          /\ payoutLog[p][r].amount = pools[p].contributionAmount * MAX_MEMBERS
    /\ \A a \in Members(p) :
          /\ refunded[p][a] = RequiredCollateral(pools[p].contributionAmount)
          /\ collateralBalances[p][a] = 0
    /\ returned[p] = deposited[p]

\* C27: with no liquidation, and with contributions, payouts, their transfers and
\* the return of collateral taken whenever they stay possible, a pool that has
\* reached 6 members eventually is inactive after exactly 6 payouts, the r-th one
\* to the r-th joined member, with each member's deposit sent back to them; a
\* pool never makes more than 6 payouts and its members stay in joining order.
C27_Lifecycle ==
    /\ [](\A p \in Existing : Len(payoutLog[p]) <= MAX_MEMBERS)
    /\ \A p \in DeepArgs :
          (poolExists(p) /\ Len(pools[p].members) = MAX_MEMBERS) ~> Settled(p)

\* C27 witness: the pool has run its six rounds, paid its members in joining
\* order and returned every deposit.
C27_Witness ==
    /\ poolExists(0)
    /\ Settled(0)
    /\ \A a \in Members(0) : PayoutsTo(0, a) = 1

\* forfeited collateral of pool p that no liquidation sent out
Dust(p) == forfeited[p] - distributed[p]

EngineView(p) ==
    [members |-> pools[p].members, collateral |-> collateralBalances[p],
     receipts |-> hasContributed[p], paid |-> hasPaid[p],
     defaulted |-> hasDefaulted[p], currentRound |-> pools[p].currentRound,
     isActive |-> pools[p].isActive, roundStartTime |-> pools[p].roundStartTime]

\* C29: after every operation the replica that applies only the arguments of the
\* emitted events has each pool's members in order, collateral balances,
\* receipts, paid and default flags, currentRound, active flag and roundStartTime
\* as the engine has them.
C29_ReplicaReconstructs ==
    inFlight = Idle => \A p \in PoolIds : replica[p] = EngineView(p)

\* C30: a step in which checkForDefaults marks a member of pool p happens only
\* when the pool has 6 members, has had them for longer than the contribution
\* deadline, and the current round has been open for longer than the deadline:
\* the member marked had more than 3600 seconds in which contribute would have
\* taken the contribution.  No member of a pool that never filled, or that filled
\* after roundStartTime + 3600, is marked.
C30_NoPrematureDefault ==
    [][\A p \in PoolIds :
          hasDefaulted'[p] # hasDefaulted[p]
             => /\ Len(pools[p].members) = MAX_MEMBERS
                /\ now > fullSince[p] + CONTRIBUTION_DEADLINE
                /\ now > pools[p].roundStartTime + CONTRIBUTION_DEADLINE]_vars

\* the contributions pool p received for round r: one contributionAmount for
\* every receipt of that round (lines 605-611)
ContributionsOfRound(p, r) ==
    Cardinality({a \in Addr : <<r, a>> \in hasContributed[p]}) * pools[p].contributionAmount

\* C31: a step in which executePayout transfers a payout of pool p transfers the
\* total of the contributions the pool received for the round paid, and leaves
\* the engine holding no contribution money of that pool.
C31_NoStuckContributions ==
    [][\A p \in PoolIds :
          PayoutStep(p)
             => LET paid == payoutLog'[p][Len(payoutLog'[p])] IN
                /\ paid.amount = ContributionsOfRound(p, paid.round)
                /\ Pot(p)' = 0]_vars

\* C32: a step in which liquidateDefaultedMember removes a member from pool p
\* removes one who holds no receipt for the current round, after the current
\* round's deadline has passed; a member marked earlier who has contributed
\* since keeps the collateral.
C32_LiquidationOnlyOfDefaulters ==
    [][\A p \in PoolIds :
          LiquidationStep(p)
             => /\ \A d \in Members(p) \ Range(pools'[p].members) : ~HasReceipt(p, d)
                /\ now > pools[p].roundStartTime + CONTRIBUTION_DEADLINE]_vars

\* what pool p owes: its collateral balances and one contributionAmount for
\* every current member holding a receipt for currentRound
Owed(p) ==
    SumOver(collateralBalances[p], Addr)
       + pools[p].contributionAmount * Cardinality({a \in Members(p) : HasReceipt(p, a)})

\* C33: between operations, what each pool has taken in (collateral and
\* contributions) less what was sent out on its behalf (payouts, collateral
\* returned, forfeiture shares) is at least its collateral balances plus
\* contributionAmount for every current member with a receipt for currentRound.
\* So the pool's own funds cover its payout, its collateral return and its
\* forfeiture shares, and executePayout never fails on the balance check.
C33_PoolSolvency ==
    /\ balance = SumOver([p \in PoolIds |-> OwnFunds(p)], PoolIds)
    /\ \A p \in PoolIds :
          /\ inFlight = Idle => OwnFunds(p) >= Owed(p)
          /\ OwnFunds(p) >= SumOver(collateralBalances[p], Addr)
          /\ ExecutePayoutErr(p) # "Insufficient contract balance"
          /\ ExecutePayoutErr(p) = "ok"
                => OwnFunds(p) - SumOver(collateralBalances[p], Addr) >= PayoutAmount(p)
          /\ ReturnCollateralErr(p) = "ok" => OwnFunds(p) >= ReturnTotal(p)
          /\ \A d \in Addr :
                LiquidateErr(p, d) = "ok"
                   => OwnFunds(p) >= DistributionPerMember(p, d) * (Len(pools[p].members) - 1)

\* C33 witness: after a payout and a liquidation, members hold receipts for the
\* round under way and the pool's funds are exactly what it owes.
C33_Witness ==
    /\ inFlight = Idle
    /\ Len(payoutLog[0]) >= 1
    /\ liquidations[0] = 1
    /\ getContributionCount(0) >= 2
    /\ OwnFunds(0) = Owed(0)
    /\ ExecutePayoutErr(0) = "ok"

\* C34: in every state in which executePayout on an active pool passes its check
\* that all members have contributed, areAllMembersContributed returns true.
C34_QueryAgreesWithPayoutGate ==
    \A p \in Existing :
        (poolActive(p) /\ AllContributed(p)) => areAllMembersContributed(p)

\* pool p was created and is no longer active
Closed(p) == poolExists(p) /\ ~pools[p].isActive

\* C35: once a pool is inactive its members, currentRound, roundStartTime, active
\* flag, membership, receipts, paid flags and default flags never change, and
\* joinPool, checkForDefaults and liquidateDefaultedMember are rejected on it; its
\* collateral balances change only in a step of returnCollateral, which sets the
\* members' balances to zero.
C35_ClosedPoolFrozen ==
    /\ [](\A p \in PoolIds :
             Closed(p)
                => /\ \A a \in Addr : \A v \in DepositValues :
                         JoinPoolErr(p, a, v) = "Pool is not active"
                   /\ CheckForDefaultsErr(p) = "Pool is not active"
                   /\ \A d \in Addr : LiquidateErr(p, d) = "Pool is not active")
    /\ [][\A p \in PoolIds :
             Closed(p)
                => /\ pools'[p] = pools[p]
                   /\ isMember'[p] = isMember[p]
                   /\ hasContributed'[p] = hasContributed[p]
                   /\ hasPaid'[p] = hasPaid[p]
                   /\ hasDefaulted'[p] = hasDefaulted[p]
                   /\ collateralBalances'[p] # collateralBalances[p]
                         => /\ ReturnStep(p)
                            /\ \A a \in Addr :
                                  collateralBalances'[p][a] =
                                     IF a \in Members(p) THEN 0 ELSE collateralBalances[p][a]]_vars

\* C35 witness: the collateral of a completed pool has been returned, a member
\* of it marked as defaulted among those refunded.
C35_Witness ==
    /\ Closed(0)
    /\ returned[0] > 0
    /\ \E d \in hasDefaulted[0] \cap isMember[0] : refunded[0][d] > 0
    /\ \A a \in Addr : collateralBalances[0][a] = 0

\* a step in which a payout of pool p is completed and its round counted
RoundStep(p) == pools'[p].currentRound # pools[p].currentRound

\* roundStartTime of pool p is written by createPool and by a completed payout,
\* with the current time, and by nothing else
RoundStartWritten ==
    \A p \in PoolIds :
        /\ pools'[p].roundStartTime # pools[p].roundStartTime
              => CreateStep(p) \/ RoundStep(p)
        /\ (CreateStep(p) \/ RoundStep(p)) => pools'[p].roundStartTime = now
        /\ (JoinStep(p) /\ ~CreateStep(p)) \/ LiquidationStep(p)
              \/ hasContributed'[p] # hasContributed[p]
              \/ hasDefaulted'[p] # hasDefaulted[p]
              => pools'[p].roundStartTime = pools[p].roundStartTime

\* C36 as stated: roundStartTime is set to the current time by createPool and by
\* every successful executePayout and by nothing else, and in every state after
\* a payout of the pool in which no more than 3600 seconds have passed since it,
\* checkForDefaults is rejected with "Contribution deadline has not passed yet".
C36_DeadlineErrorAfterEveryPayout ==
    /\ [][RoundStartWritten]_vars
    /\ [](\A p \in PoolIds :
             (inFlight = Idle /\ pools[p].currentRound >= 1
                /\ now <= pools[p].roundStartTime + CONTRIBUTION_DEADLINE)
                => CheckForDefaultsErr(p) = "Contribution deadline has not passed yet")

\* C36: roundStartTime is set to the current time by createPool and by every
\* successful executePayout and by nothing else: joinPool (the join that fills
\* the pool too), contribute, checkForDefaults and liquidateDefaultedMember leave
\* it as it is.  After a payout, until more than 3600 seconds have passed since
\* it, checkForDefaults is rejected: with "Contribution deadline has not passed
\* yet" while the pool is active, with "Pool is not active" once the payout was
\* the one that completed the pool.
C36_RoundStartTime ==
    /\ [][RoundStartWritten]_vars
    /\ [](\A p \in PoolIds :
             (inFlight = Idle /\ pools[p].currentRound >= 1
                /\ now <= pools[p].roundStartTime + CONTRIBUTION_DEADLINE)
                => CheckForDefaultsErr(p) =
                      IF pools[p].isActive
                      THEN "Contribution deadline has not passed yet"
                      ELSE "Pool is not active")

\* C36 witness: a payout made after the first deadline has opened a new round;
\* counted from the pool's creation the deadline has passed, counted from the
\* payout it has not, and checkForDefaults is rejected.
C36_Witness ==
    /\ inFlight = Idle
    /\ poolActive(0)
    /\ pools[0].currentRound >= 1
    /\ pools[0].roundStartTime > pools[0].createdAt
    /\ now > pools[0].createdAt + CONTRIBUTION_DEADLINE
    /\ CheckForDefaultsErr(0) = "Contribution deadline has not passed yet"

\* C37: for every pool and address, the membership flag is set exactly when the
\* address occurs in the pool's members array, and it occurs there once.
C37_MembershipInStep ==
    \A p \in PoolIds :
        /\ isMember[p] = Members(p)
        /\ Cardinality(isMember[p]) = Len(pools[p].members)
        /\ \A a \in Addr : onlyMember(p, a) <=> \E i \in DOMAIN pools[p].members :
                                                   pools[p].members[i] = a

\* C37 witness: a member was liquidated and has joined again; the pool is full
\* and everyone who ever joined is a member.
C37_Witness ==
    /\ liquidations[0] = 1
    /\ Len(pools[0].members) = MAX_MEMBERS
    /\ isMember[0] = everMember[0]
    /\ hasDefaulted[0] \cap isMember[0] # {}

\* C38: for every pool the number of addresses marked paid is currentRound (one
\* more while the transfer of a payout runs, the round not yet counted), and 6 in
\* a completed pool; the paid flags change only in a step that transfers a
\* payout, which marks one address that was not marked.
C38_PaidCountIsRound ==
    /\ [](\A p \in PoolIds :
             /\ inFlight.pool # p => Cardinality(hasPaid[p]) = pools[p].currentRound
             /\ inFlight.pool = p => Cardinality(hasPaid[p]) = pools[p].currentRound + 1
             /\ Closed(p) => Cardinality(hasPaid[p]) = MAX_MEMBERS)
    /\ [][\A p \in PoolIds :
             hasPaid'[p] # hasPaid[p]
                => /\ PayoutStep(p)
                   /\ \E r \in Addr \ hasPaid[p] : hasPaid'[p] = hasPaid[p] \cup {r}]_vars

\* C38 witness: a completed pool with six paid addresses, one of them liquidated
\* after it was paid and no longer a member.
C38_Witness ==
    /\ Closed(0)
    /\ Cardinality(hasPaid[0]) = MAX_MEMBERS
    /\ hasPaid[0] \ isMember[0] # {}

\* C39: no receipt exists for a round after currentRound, and a receipt is written
\* for currentRound only.  In the state a payout that does not complete the pool
\* leaves, no member holds a receipt for the new round: getContributionCount is
\* 0, areAllMembersContributed is false and executePayout is rejected until the
\* members, a re-joined one too, have contributed again.
C39_ReceiptsPerRound ==
    /\ [](\A p \in PoolIds :
             \A x \in hasContributed[p] : x[1] <= pools[p].currentRound)
    /\ [][\A p \in PoolIds :
             /\ \A x \in hasContributed'[p] \ hasContributed[p] :
                   x[1] = pools[p].currentRound
             /\ (RoundStep(p) /\ pools'[p].isActive)
                   => /\ getContributionCount(p)' = 0
                      /\ ~areAllMembersContributed(p)'
                      /\ ExecutePayoutErr(p)' = "Not all members have contributed this round"]_vars

\* C39 witness: a new round has just begun in a full pool one of whose members
\* was liquidated and joined again; receipts of earlier rounds exist, none of the
\* new round.
C39_Witness ==
    /\ inFlight = Idle
    /\ poolActive(0)
    /\ pools[0].currentRound >= 1
    /\ liquidations[0] = 1
    /\ Len(pools[0].members) = MAX_MEMBERS
    /\ isMember[0] = everMember[0]
    /\ hasContributed[0] # {}
    /\ getContributionCount(0) = 0

====
